---- MODULE Spec2Model ----
(***************************************************************************)
(* State-machine model of RTX::ConfigFactory (src/src/ConfigFactory.cpp):  *)
(* loadConfigFile and the stage functions it calls.  The configuration     *)
(* document is the input; the factory's tables, pending-edge side tables,  *)
(* the model object and the diagnostics written to cerr/cout are the       *)
(* state.                                                                  *)
(*                                                                         *)
(* libconfig semantics used throughout: Setting::operator[] and            *)
(* Config::lookup throw SettingNotFoundException when the child is absent, *)
(* a conversion to the wrong type throws SettingTypeException, and         *)
(* lookupValue returns false instead of throwing.  loadConfigFile catches  *)
(* only FileIOException and ParseException, so every other exception       *)
(* leaves loadConfigFile (pc = "threw").  std::map::operator[] inserts a   *)
(* default (null) value under a key that is not yet present.               *)
(***************************************************************************)
EXTENDS Integers, Sequences, FiniteSets, TLC

\* ------------------------------------------------------------------ bounds
MaxRecords == 3
MaxClocks == 2
MaxSeries == 2
MaxSources == 2
MaxBindings == 2

\* ------------------------------------------------------------- value space
NULL == 0                 \* an empty shared pointer
NoField == "~"            \* a field the document does not have
NonString == "#int"       \* a field that exists but is not a string

DefaultRecordNames == <<"Record 0", "Record 1", "Record 2", "Record 3">>

\* the keys the constructor registers
PointRecordTypes == {"CSV", "SCADA", "MySQL"}
TimeSeriesTypes == {"TimeSeries", "MovingAverage", "Aggregator", "Resampler",
                    "Derivative", "Offset", "FirstDerivative", "Threshold",
                    "CurveFunction", "Multiplier", "ValidRange", "Constant"}
ParameterTypes == {"qualitysource", "quality", "boundaryflow", "headmeasure",
                   "pressuremeasure", "levelmeasure", "boundaryhead", "status",
                   "flow", "curve", "energy", "setting"}

Sections == {"records", "clocks", "timeseries", "model", "simulation",
             "zones", "save", "elements"}

VARIABLES
  pc,                               \* position of loadConfigFile
  doc,                              \* _configuration and the files it names
  _pointRecordList,                 \* map<string, PointRecord::sharedPointer>
  _clockList,                       \* map<string, Clock::sharedPointer>
  _timeSeriesList,                  \* map<string, TimeSeries::sharedPointer>
  _timeSeriesSourceList,            \* map<string, string>
  _multiplierBasisList,             \* map<TimeSeries::sharedPointer, string>
  _timeSeriesAggregationSourceList, \* map<string, vector<pair<string,double>>>
  recHeap,                          \* the PointRecord objects, by pointer
  clockHeap,                        \* the Clock objects, by pointer
  tsHeap,                           \* the TimeSeries objects, by pointer
  _model,                           \* the model object (kind "null": empty pointer)
  _defaultRecord,
  _doesHaveStateRecord,
  diag,                             \* what was written to cerr / cout, in order
  stages                            \* the stage functions called so far, in order

vars == <<pc, doc, _pointRecordList, _clockList, _timeSeriesList,
          _timeSeriesSourceList, _multiplierBasisList,
          _timeSeriesAggregationSourceList, recHeap, clockHeap, tsHeap,
          _model, _defaultRecord, _doesHaveStateRecord, diag, stages>>

\* ----------------------------------------------------------------- helpers
EmptyMap == [x \in {} |-> NULL]

\* std::map::operator[] used as an rvalue: the value, NULL when absent
MapGet(m, key) == IF key \in DOMAIN m THEN m[key] ELSE NULL

\* std::map::operator[] as a side effect of a read: inserts NULL when absent
MapTouch(m, key) == IF key \in DOMAIN m THEN m ELSE (key :> NULL) @@ m

\* map[key] = value
MapPut(m, key, value) == (key :> value) @@ m

\* a string field that exists (whatever its type) / exists and is a string
Exists(v) == v # NoField
IsString(v) == v # NoField /\ v # NonString

\* std::map iterates in key order: the string keys in lexicographic order
NameOrder == <<"a", "b", "k">>
SortedKeys(m) == SelectSeq(NameOrder, LAMBDA n : n \in DOMAIN m)

\* what undefined behaviour (a static_pointer_cast to a class the object is
\* not, a call through an empty shared pointer) can do: act as if the object
\* were of the class, do nothing visible, or end the process
UBOutcomes == {"write", "none", "crash"}

\* ------------------------------------------------------------ PointRecords
\* boost::filesystem: dirname(configPath) / relative
ResolvePath(rel) == <<"configDir", rel>>

\* PointRecordFactory::createCsvPointRecord: always returns the object; the
\* fields are applied only when name, path (and configPath) are strings
CreateCsvPointRecord(record, decl) ==
  LET ok == IsString(record.name) /\ IsString(record.path)
  IN [obj  |-> [kind |-> "CSV", decl |-> decl,
                path |-> IF ok THEN ResolvePath(record.path) ELSE <<>>,
                readOnly |-> ok /\ record.readonly = "true",
                connection |-> NoField, connector |-> NoField],
      diag |-> IF ok THEN <<>> ELSE << <<"CSV Point Record -- check config">> >>,
      threw |-> FALSE]

\* PointRecordFactory::createOdbcPointRecord
CreateOdbcPointRecord(record, decl) ==
  LET bad == ~IsString(record.connection) \/ ~IsString(record.name)
      d1 == IF bad THEN << <<"odbc record name or connection not valid">> >> ELSE <<>>
      d2 == CASE record.connectorType = NoField -> << <<"connector type not specified">> >>
              [] record.connectorType = "unknown" -> << <<"connector type not set">> >>
              [] OTHER -> <<>>
  IN [obj  |-> [kind |-> "SCADA", decl |-> decl, path |-> <<>>, readOnly |-> FALSE,
                connection |-> IF IsString(record.connection)
                               THEN record.connection ELSE "",
                connector |-> IF record.connectorType = "known"
                              THEN "known" ELSE NoField],
      diag |-> d1 \o d2,
      threw |-> record.connectorType = NonString]

\* PointRecordFactory::createMySqlPointRecord: setting["name"] and
\* setting["connection"] throw when absent or not strings
CreateMySqlPointRecord(record, decl) ==
  [obj  |-> [kind |-> "MySQL", decl |-> decl, path |-> <<>>, readOnly |-> FALSE,
             connection |-> record.connection, connector |-> NoField],
   diag |-> <<>>,
   threw |-> ~IsString(record.name) \/ ~IsString(record.connection)]

\* ConfigFactory::createPointRecordOfType: obj is absent (made = FALSE) for
\* an unregistered or missing type
CreatePointRecordOfType(record, decl) ==
  IF IsString(record.type) /\ record.type \in PointRecordTypes
  THEN LET r == CASE record.type = "CSV" -> CreateCsvPointRecord(record, decl)
                  [] record.type = "SCADA" -> CreateOdbcPointRecord(record, decl)
                  [] OTHER -> CreateMySqlPointRecord(record, decl)
       IN [made |-> ~r.threw, obj |-> r.obj, diag |-> r.diag, threw |-> r.threw]
  ELSE [made |-> FALSE, obj |-> <<>>,
        diag |-> << <<"Point Record type not supported", record.type>> >>,
        threw |-> FALSE]

\* the key createPointRecords stores the record under: recordName is declared
\* outside the loop, so a name that exists but is not a string leaves the
\* previous iteration's value in place
RecordKey(record, iRecord, recordName) ==
  IF Exists(record.name)
  THEN (IF IsString(record.name) THEN record.name ELSE recordName)
  ELSE DefaultRecordNames[iRecord + 1]

\* ConfigFactory::createPointRecords: the loop from entry i (1-based) on
RECURSIVE PointRecordsLoop(_, _, _, _)
PointRecordsLoop(records, i, recordName, st) ==
  IF i > Len(records) \/ st.threw THEN st
  ELSE LET key == RecordKey(records[i], i - 1, recordName)
           r == CreatePointRecordOfType(records[i], i - 1)
           ptr == Len(st.heap) + 1
       IN PointRecordsLoop(records, i + 1, key,
            IF r.threw
            THEN [st EXCEPT !.threw = TRUE, !.diag = @ \o r.diag]
            ELSE IF r.made
            THEN [st EXCEPT !.list = MapPut(@, key, ptr),
                            !.heap = Append(@, r.obj),
                            !.diag = @ \o r.diag]
            ELSE [st EXCEPT !.diag = @ \o r.diag
                                     \o << <<"could not load point record">> >>])

\* ------------------------------------------------------------------ Clocks
\* ConfigFactory::createClocks: clock["name"] and clock["period"] throw
RECURSIVE ClocksLoop(_, _, _)
ClocksLoop(clockGroup, i, st) ==
  IF i > Len(clockGroup) \/ st.threw THEN st
  ELSE LET clock == clockGroup[i]
           ptr == Len(st.heap) + 1
       IN ClocksLoop(clockGroup, i + 1,
            IF ~IsString(clock.name) \/ ~IsString(clock.period)
            THEN [st EXCEPT !.threw = TRUE]
            ELSE [st EXCEPT !.list = MapPut(@, clock.name, ptr),
                            !.heap = Append(@, [decl |-> i - 1,
                                                period |-> clock.period])])

\* -------------------------------------------------------------- TimeSeries
\* the C++ class each registered creator instantiates
ClassOfType(type) ==
  CASE type = "TimeSeries" -> "TimeSeries"
    [] type = "MovingAverage" -> "MovingAverage"
    [] type = "Aggregator" -> "AggregatorTimeSeries"
    [] type = "Resampler" -> "Resampler"
    [] type \in {"Derivative", "FirstDerivative"} -> "FirstDerivative"
    [] type = "Offset" -> "OffsetTimeSeries"
    [] type = "Threshold" -> "ThresholdTimeSeries"
    [] type = "CurveFunction" -> "CurveFunction"
    [] type = "Multiplier" -> "MultiplierTimeSeries"
    [] type = "ValidRange" -> "ValidRangeTimeSeries"
    [] OTHER -> "ConstantTimeSeries"

\* classes that derive from TimeSeries directly, not from ModularTimeSeries
PlainSubclasses == {"ConstantTimeSeries"}

\* can static_pointer_cast<ModularTimeSeries> be applied to an object of
\* class cls: never to the base class itself (new TimeSeries())
IsModular(cls) == cls # "TimeSeries" /\ cls \notin PlainSubclasses

\* ConfigFactory::setGenericTimeSeriesProperties on a fresh object; st holds
\* the factory's tables.  The clock and pointRecord lookups use operator[].
SetGenericTimeSeriesProperties(obj, series, st) ==
  LET o1 == [obj EXCEPT !.name = series.name,
                        !.units = IF Exists(series.units) THEN series.units
                                  ELSE "dimensionless",
                        !.clock = IF Exists(series.clock)
                                  THEN MapGet(st.clocks, series.clock) ELSE @,
                        !.record = IF Exists(series.pointRecord)
                                   THEN MapGet(st.recs, series.pointRecord) ELSE @]
  IN [obj |-> o1,
      st  |-> [st EXCEPT
                 !.clocks = IF Exists(series.clock)
                            THEN MapTouch(@, series.clock) ELSE @,
                 !.recs = IF Exists(series.pointRecord)
                          THEN MapTouch(@, series.pointRecord) ELSE @,
                 !.src = IF Exists(series.source)
                         THEN MapPut(@, series.name, series.source) ELSE @]]

NewTimeSeries(cls, decl) ==
  [cls |-> cls, decl |-> decl, name |-> "", units |-> "dimensionless",
   clock |-> NULL, record |-> NULL, source |-> NULL, window |-> NoField,
   value |-> NoField, curve |-> NoField, multiplier |-> NULL, sources |-> <<>>]

\* ConfigFactory::createAggregator, the loop over "sources": the
\* vector<pair<string,double>>; a missing multiplier is 1.
RECURSIVE SourceList(_, _)
SourceList(sources, i) ==
  IF i > Len(sources) THEN <<>>
  ELSE << <<sources[i].source,
            IF Exists(sources[i].multiplier) THEN sources[i].multiplier
            ELSE "1.0">> >> \o SourceList(sources, i + 1)

\* does reading the aggregator's "sources" throw (list absent, or an entry
\* without "source")
SourcesThrow(series) ==
  \/ ~series.hasSources
  \/ \E i \in 1..Len(series.sources) : ~IsString(series.sources[i].source)

\* ConfigFactory::createTimeSeriesOfType and the creator it dispatches to.
\* Result: the tables after the call, in .ptr the object (NULL: none), and
\* .threw when a required field is missing.  An object whose creator throws
\* is destroyed, but what setGenericTimeSeriesProperties wrote stays.
CreateTimeSeriesOfType(series, decl, st) ==
  IF ~IsString(series.type) THEN [st EXCEPT !.threw = TRUE, !.ptr = NULL]
  ELSE IF series.type \notin TimeSeriesTypes
  THEN [st EXCEPT !.ptr = NULL,
                  !.diag = @ \o << <<"time series type not recognized",
                                     series.type>> >>]
  ELSE LET cls == ClassOfType(series.type)
           g == SetGenericTimeSeriesProperties(NewTimeSeries(cls, decl), series, st)
           ptr == Len(st.heap) + 1
           throws == \/ cls = "MovingAverage" /\ ~IsString(series.window)
                     \/ cls = "AggregatorTimeSeries" /\ SourcesThrow(series)
                     \/ cls = "CurveFunction" /\ ~Exists(series.function)
           obj == CASE cls = "MovingAverage" -> [g.obj EXCEPT !.window = series.window]
                    [] cls \in {"OffsetTimeSeries", "ThresholdTimeSeries",
                                "ConstantTimeSeries"} ->
                         [g.obj EXCEPT !.value = series.value]
                    [] cls = "CurveFunction" -> [g.obj EXCEPT !.curve = series.function]
                    [] OTHER -> g.obj
       IN IF throws THEN [g.st EXCEPT !.threw = TRUE, !.ptr = NULL]
          ELSE [g.st EXCEPT
                  !.ptr = ptr,
                  !.heap = Append(@, obj),
                  !.aggr = IF cls = "AggregatorTimeSeries"
                           THEN MapPut(@, obj.name, SourceList(series.sources, 1))
                           ELSE @,
                  !.mult = IF cls = "MultiplierTimeSeries" /\ IsString(series.multiplier)
                           THEN MapPut(@, ptr, series.multiplier) ELSE @]

\* ConfigFactory::createTimeSeriesList, the construction loop
RECURSIVE SeriesLoop(_, _, _)
SeriesLoop(group, i, st) ==
  IF i > Len(group) \/ st.threw THEN st
  ELSE IF ~IsString(group[i].name) THEN [st EXCEPT !.threw = TRUE]
  ELSE LET r == CreateTimeSeriesOfType(group[i], i - 1, st)
       IN SeriesLoop(group, i + 1,
            IF r.threw THEN r
            ELSE IF r.ptr # NULL
            THEN [r EXCEPT !.list = MapPut(@, group[i].name, r.ptr)]
            ELSE [r EXCEPT !.diag = @ \o << <<"could not create time series",
                                              group[i].name>> >>])

\* ------------------------------------------------- deferred link resolution
\* the pending single-source edges whose static_pointer_cast<ModularTimeSeries>
\* is applied to an object that is no ModularTimeSeries
UBSingle(list, heap, src) ==
  {n \in DOMAIN src :
     /\ n \in DOMAIN list /\ src[n] \in DOMAIN list
     /\ (list[n] = NULL \/ ~IsModular(heap[list[n]].cls))}

\* createTimeSeriesList, "connect single sources": the loop over
\* _timeSeriesSourceList from the i-th key on; ub gives the outcome of each
\* undefined cast
RECURSIVE SingleSourceLoop(_, _, _, _)
SingleSourceLoop(keys, i, ub, st) ==
  IF i > Len(keys) \/ st.crashed THEN st
  ELSE LET tsName == keys[i]
           sourceName == st.src[tsName]
       IN SingleSourceLoop(keys, i + 1, ub,
            IF tsName \notin DOMAIN st.list
            THEN [st EXCEPT !.diag = @ \o << <<"cannot locate Timeseries", tsName>> >>]
            ELSE IF sourceName \notin DOMAIN st.list
            THEN [st EXCEPT !.diag = @ \o << <<"cannot locate specified source Timeseries",
                                              sourceName, tsName>> >>]
            ELSE IF tsName \in DOMAIN ub
            THEN CASE ub[tsName] = "crash" -> [st EXCEPT !.crashed = TRUE]
                   [] ub[tsName] = "write" /\ st.list[tsName] # NULL ->
                        [st EXCEPT !.heap[st.list[tsName]].source = st.list[sourceName]]
                   [] OTHER -> st
            ELSE [st EXCEPT !.heap[st.list[tsName]].source = st.list[sourceName]])

\* createTimeSeriesList, "connect multiplier time series sources": the loop
\* over _multiplierBasisList (keyed by object) from pointer p on.  The basis is
\* read with _timeSeriesList[basisName], with no test that it is there.
RECURSIVE MultiplierLoop(_, _)
MultiplierLoop(p, st) ==
  IF p > Len(st.heap) THEN st
  ELSE MultiplierLoop(p + 1,
         IF p \notin DOMAIN st.mult THEN st
         ELSE IF st.heap[p].name \notin DOMAIN st.list
         THEN [st EXCEPT !.diag = @ \o << <<"cannot locate Timeseries",
                                           st.heap[p].name>> >>]
         ELSE [st EXCEPT !.heap[p].multiplier = MapGet(st.list, st.mult[p]),
                         !.list = MapTouch(@, st.mult[p])])

\* the pending aggregation edges whose static_pointer_cast<AggregatorTimeSeries>
\* is applied to an object that is no AggregatorTimeSeries
UBAggregator(list, heap, aggr) ==
  {n \in DOMAIN aggr :
     /\ n \in DOMAIN list
     /\ (list[n] = NULL \/ heap[list[n]].cls # "AggregatorTimeSeries")}

\* the inner loop: connect the sources of one aggregator, from entry j on;
\* attach = FALSE when the cast was undefined and nothing is written
RECURSIVE AggregationLoop(_, _, _, _, _)
AggregationLoop(tsName, aggregationList, j, attach, st) ==
  IF j > Len(aggregationList) THEN st
  ELSE LET sourceName == aggregationList[j][1]
           multiplier == aggregationList[j][2]
       IN AggregationLoop(tsName, aggregationList, j + 1, attach,
            IF sourceName \notin DOMAIN st.list
            THEN [st EXCEPT !.diag = @ \o << <<"cannot locate specified source Timeseries",
                                              sourceName, tsName>> >>]
            ELSE IF attach
            THEN [st EXCEPT !.heap[st.list[tsName]].sources =
                              Append(@, <<st.list[sourceName], multiplier>>)]
            ELSE st)

\* createTimeSeriesList, "go through the list of aggregator time series"
RECURSIVE AggregatorLoop(_, _, _, _)
AggregatorLoop(keys, i, ub, st) ==
  IF i > Len(keys) \/ st.crashed THEN st
  ELSE LET tsName == keys[i]
       IN AggregatorLoop(keys, i + 1, ub,
            IF tsName \notin DOMAIN st.list
            THEN [st EXCEPT !.diag = @ \o << <<"cannot locate Timeseries", tsName>> >>]
            ELSE IF tsName \in DOMAIN ub /\ ub[tsName] = "crash"
            THEN [st EXCEPT !.crashed = TRUE]
            ELSE AggregationLoop(tsName, st.aggr[tsName], 1,
                   st.list[tsName] # NULL
                     /\ (tsName \in DOMAIN ub => ub[tsName] = "write"), st))

\* ------------------------------------------------------------ model binding
StateNames == {"head", "quality", "flow"}

\* the element class each configure* function casts to
ParameterClass(parameter) ==
  CASE parameter \in {"qualitysource", "quality", "boundaryflow", "headmeasure",
                      "pressuremeasure"} -> "Junction"
    [] parameter = "levelmeasure" -> "Tank"
    [] parameter = "boundaryhead" -> "Reservoir"
    [] parameter \in {"status", "flow"} -> "Pipe"
    [] parameter \in {"curve", "energy"} -> "Pump"
    [] OTHER -> "Valve"

\* the classes an element of a kind can be dynamic_pointer_cast to
ClassesOf(kind) ==
  CASE kind \in {"Tank", "Reservoir"} -> {kind, "Junction"}
    [] kind \in {"Pump", "Valve"} -> {kind, "Pipe"}
    [] OTHER -> {kind}

\* an element as loadModelFromFile leaves it: nothing bound
NewElement(e) ==
  [name |-> e.name, kind |-> e.kind,
   params |-> [q \in ParameterTypes |-> NULL],
   rec |-> [x \in StateNames |-> NULL]]

RECURSIVE NewElements(_, _)
NewElements(network, i) ==
  IF i > Len(network) THEN <<>>
  ELSE <<NewElement(network[i])>> \o NewElements(network, i + 1)

\* a setter without the dynamic_pointer_cast test
ConfigureParameterUnchecked(parameter, setting, element, list) ==
  [element EXCEPT !.params[parameter] = MapGet(list, setting.timeseries)]

\* ConfigFactory::configure<Parameter>: the capability check and the setter
ConfigureParameter(parameter, setting, element, list) ==
  IF ParameterClass(parameter) \in ClassesOf(element.kind)
  THEN [element EXCEPT !.params[parameter] = MapGet(list, setting.timeseries)]
  ELSE element

\* ConfigFactory::configureElement: the loop over configuration.elements from
\* entry i on; st.el is the element, st.list the time-series table, st.done is
\* set by the early returns
RECURSIVE ConfigureElement(_, _, _)
ConfigureElement(elements, i, st) ==
  IF i > Len(elements) \/ st.threw \/ st.done THEN st
  ELSE LET elementSetting == elements[i]
           parameterType == elementSetting.parameter
           tsName == elementSetting.timeseries
       IN ConfigureElement(elements, i + 1,
            IF ~IsString(elementSetting.model_id) THEN [st EXCEPT !.threw = TRUE]
            ELSE IF elementSetting.model_id # st.el.name THEN st
            ELSE IF ~Exists(parameterType)
            THEN [st EXCEPT !.threw = TRUE,
                            !.diag = @ \o << <<"skipping element : missing parameter",
                                              elementSetting.model_id>> >>]
            ELSE IF parameterType \notin ParameterTypes
            THEN [st EXCEPT !.done = TRUE,
                            !.diag = @ \o << <<"could not find parameter type",
                                              parameterType>> >>]
            ELSE IF ~IsString(tsName) THEN [st EXCEPT !.threw = TRUE]
            ELSE IF MapGet(st.list, tsName) = NULL
            THEN [st EXCEPT !.done = TRUE,
                            !.list = MapTouch(@, tsName),
                            !.diag = @ \o << <<"could not find time series", tsName>> >>]
            ELSE [st EXCEPT !.el = ConfigureParameter(parameterType, elementSetting,
                                                      st.el, st.list)])

\* ConfigFactory::configureElements: every element of the model, in order;
\* st.els are the elements, st.list the time-series table
RECURSIVE ConfigureElements(_, _, _)
ConfigureElements(d, e, st) ==
  IF e > Len(st.els) \/ st.threw THEN st
  ELSE IF "elements" \notin d.sections THEN st
  ELSE LET r == ConfigureElement(d.elements, 1,
                  [el |-> st.els[e], list |-> st.list, diag |-> st.diag,
                   threw |-> FALSE, done |-> FALSE])
       IN ConfigureElements(d, e + 1,
            [st EXCEPT !.els[e] = r.el, !.list = r.list, !.diag = r.diag,
                       !.threw = r.threw])

NullModel ==
  [kind |-> "null", elements |-> <<>>, controlsOverridden |-> FALSE,
   hydStep |-> NoField, qualStep |-> NoField, zones |-> <<>>, storage |-> NULL]

\* ConfigFactory::createModel: for the two known types the model is loaded and
\* its elements are configured at once; any other type leaves _model as it is
CreateModel(d, model, list, dg) ==
  LET setting == d.model
      kind == CASE setting.type = "epanet" -> "EpanetModel"
                [] setting.type = "synthetic_epanet" -> "EpanetSyntheticModel"
                [] OTHER -> "null"
  IN IF ~IsString(setting.type) \/ ~IsString(setting.file)
     THEN [model |-> model, list |-> list, diag |-> dg, threw |-> TRUE,
           bound |-> FALSE]
     ELSE IF kind = "null"
     THEN [model |-> model, list |-> list, diag |-> dg, threw |-> FALSE,
           bound |-> FALSE]
     ELSE LET r == ConfigureElements(d, 1,
                     [els |-> NewElements(d.network, 1), list |-> list,
                      diag |-> dg, threw |-> FALSE])
          IN [model |-> [NullModel EXCEPT !.kind = kind,
                                          !.elements = r.els,
                                          !.controlsOverridden = (kind = "EpanetModel")],
              list |-> r.list, diag |-> r.diag, threw |-> r.threw, bound |-> TRUE]

\* ------------------------------------------- simulation defaults and zones
\* ConfigFactory::createSimulationDefaults; ub is the outcome of calling
\* through _model when it is empty
CreateSimulationDefaults(setting, model, ub) ==
  IF ~setting.time \/ ~IsString(setting.hydraulic) \/ ~IsString(setting.quality)
  THEN [model |-> model, threw |-> TRUE, crashed |-> FALSE]
  ELSE IF model.kind = "null"
  THEN [model |-> model, threw |-> FALSE, crashed |-> (ub = "crash")]
  ELSE [model |-> [model EXCEPT !.hydStep = setting.hydraulic,
                                !.qualStep = setting.quality],
        threw |-> FALSE, crashed |-> FALSE]

\* Model::initDemandZones: the zones of the network, each with no record
RECURSIVE NewZones(_)
NewZones(n) == IF n = 0 THEN <<>> ELSE Append(NewZones(n - 1), [record |-> NULL])

\* ConfigFactory::createZones
CreateZones(d, model, ub) ==
  IF Exists(d.zones.auto_detect) /\ d.zones.auto_detect = "true"
  THEN IF model.kind = "null"
       THEN [model |-> model, crashed |-> (ub = "crash")]
       ELSE [model |-> [model EXCEPT !.zones = NewZones(d.networkZones)],
             crashed |-> FALSE]
  ELSE [model |-> model, crashed |-> FALSE]

\* ------------------------------------------------------------ save options
DoesHaveHeadMeasure(el) == el.params["headmeasure"] # NULL
DoesHaveQualityMeasure(el) == el.params["quality"] # NULL
DoesHaveFlowMeasure(el) == el.params["flow"] # NULL

\* the "measured" branch without the doesHave...Measure tests
SaveMeasuredAll(el, rec) ==
  LET isJunction == "Junction" \in ClassesOf(el.kind)
      isPipe == "Pipe" \in ClassesOf(el.kind)
  IN [el EXCEPT
        !.rec["head"] = IF isJunction THEN rec ELSE @,
        !.rec["quality"] = IF isJunction THEN rec ELSE @,
        !.rec["flow"] = IF isPipe THEN rec ELSE @]

\* the "measured" branch for one element
SaveMeasured(el, rec) ==
  LET isJunction == "Junction" \in ClassesOf(el.kind)
      isPipe == "Pipe" \in ClassesOf(el.kind)
  IN [el EXCEPT
        !.rec["head"] = IF isJunction /\ DoesHaveHeadMeasure(el) THEN rec ELSE @,
        !.rec["quality"] = IF isJunction /\ DoesHaveQualityMeasure(el) THEN rec ELSE @,
        !.rec["flow"] = IF isPipe /\ DoesHaveFlowMeasure(el) THEN rec ELSE @]

\* the effect of one save_states token on a model that exists
SaveState(stateToSave, model, rec) ==
  CASE stateToSave = "all" -> [model EXCEPT !.storage = rec]
    [] stateToSave = "measured" ->
         [model EXCEPT !.elements =
            [e \in DOMAIN model.elements |-> SaveMeasured(model.elements[e], rec)]]
    [] stateToSave = "zone_demand" ->
         [model EXCEPT !.zones = [z \in DOMAIN model.zones |-> [record |-> rec]]]
    [] OTHER -> model

\* createSaveOptions, the loop over save_states from token i on
RECURSIVE SaveStatesLoop(_, _, _, _)
SaveStatesLoop(saveSetting, i, ub, st) ==
  IF i > Len(saveSetting) \/ st.threw \/ st.crashed THEN st
  ELSE SaveStatesLoop(saveSetting, i + 1, ub,
         IF ~IsString(saveSetting[i]) THEN [st EXCEPT !.threw = TRUE]
         ELSE IF saveSetting[i] \notin {"all", "measured", "zone_demand"} THEN st
         ELSE IF st.model.kind = "null"
         THEN [st EXCEPT !.crashed = (ub = "crash")]
         ELSE [st EXCEPT !.model = SaveState(saveSetting[i], @, st.rec)])

\* ConfigFactory::createSaveOptions.  The default record is read with
\* _pointRecordList[defaultRecordName] after the diagnostic.
CreateSaveOptions(saveGroup, model, recs, has, dflt, ub) ==
  LET base == [model |-> model, recs |-> recs, has |-> has, rec |-> dflt,
               diag |-> <<>>, threw |-> FALSE, crashed |-> FALSE]
  IN IF ~Exists(saveGroup.staterecord)
     THEN [base EXCEPT !.diag = << <<"Warning: no state record specified">> >>]
     ELSE IF ~IsString(saveGroup.staterecord)
     THEN [base EXCEPT !.has = TRUE, !.threw = TRUE]
     ELSE LET name == saveGroup.staterecord
              st == [base EXCEPT
                       !.has = TRUE,
                       !.diag = IF name \in DOMAIN recs THEN <<>>
                                ELSE << <<"could not retrieve point record by name",
                                          name>> >>,
                       !.rec = MapGet(recs, name),
                       !.recs = MapTouch(recs, name)]
          IN IF ~saveGroup.hasSaveStates THEN st
             ELSE IF ~saveGroup.saveStatesIsList
             THEN [st EXCEPT !.diag = @ \o << <<"save_states should be a list">> >>]
             ELSE SaveStatesLoop(saveGroup.save_states, 1, ub, st)

\* ---------------------------------------------------------- the documents
\* sequences over S of length at most n
SeqsUpTo(S, n) == UNION {[1..m -> S] : m \in 0..n}

Record(name, type, path, connection) ==
  [name |-> name, type |-> type, path |-> path, connection |-> connection,
   connectorType |-> NoField, readonly |-> NoField]

RecordEntries ==
  {Record(n, "CSV", q, NoField) : n \in {"hist", NoField, NonString},
                                  q \in {"data", NoField}}
  \cup {[Record("hist", "CSV", "data", NoField) EXCEPT !.readonly = "true"],
        [Record("hist", "SCADA", NoField, NoField) EXCEPT !.connectorType = "unknown"],
        Record("hist", "MySQL", NoField, "dsn"),
        Record("hist", "MySQL", NoField, NoField),
        Record("hist", "Oracle", NoField, NoField),
        Record("hist", NoField, NoField, NoField)}

Clock(name, period) == [name |-> name, period |-> period]
ClockEntries == {Clock(n, q) : n \in {"5min", "1h", NoField}, q \in {"300", NoField}}

Series(name, type) ==
  [name |-> name, type |-> type, units |-> NoField, clock |-> NoField,
   pointRecord |-> NoField, source |-> NoField, window |-> NoField,
   value |-> NoField, function |-> NoField, multiplier |-> NoField,
   hasSources |-> FALSE, sources |-> <<>>]

\* an aggregation entry: the weight is left out for "b"
Weighted(n) == [source |-> n, multiplier |-> IF n = "b" THEN NoField ELSE "2.0"]
WeightedLists ==
  {[i \in DOMAIN l |-> Weighted(l[i])] : l \in SeqsUpTo({"b", "k"}, MaxSources)}

\* entries with a single source, a multiplier basis, or a reference
SeriesEntries ==
  {Series(n, "TimeSeries") : n \in {"b", "k"}}
  \cup {[Series("a", "TimeSeries") EXCEPT !.source = "b"],
        [Series("a", "TimeSeries") EXCEPT !.clock = "nope", !.pointRecord = "nope"],
        [Series("b", "TimeSeries") EXCEPT !.clock = "5min", !.pointRecord = "hist",
                                          !.units = "psi"]}
  \cup {[Series("a", "MovingAverage") EXCEPT !.source = x, !.window = "12"] :
          x \in {"a", "b", "k"}}
  \cup {[Series("b", "MovingAverage") EXCEPT !.source = "a", !.window = "12"],
        [Series("a", "MovingAverage") EXCEPT !.source = "b"],
        Series("k", "Resampler")}
  \cup {[Series("a", "Multiplier") EXCEPT !.multiplier = x] :
          x \in {"a", "b", "k", NoField}}
  \cup {Series("a", "Kalman"), Series("a", NoField), Series(NoField, "TimeSeries")}

\* entries around an aggregator "a" whose sources are among "b" and "k"
AggregatorEntries ==
  {[Series("a", "Aggregator") EXCEPT !.hasSources = TRUE, !.sources = l] :
     l \in WeightedLists}
  \cup {Series("a", "Aggregator"),
        [Series("a", "Aggregator") EXCEPT !.hasSources = TRUE,
           !.sources = << [source |-> NoField, multiplier |-> NoField] >>],
        Series("b", "TimeSeries"), Series("k", "Resampler"),
        [Series("b", "Constant") EXCEPT !.source = "k", !.value = "1.5"],
        [Series("b", "Multiplier") EXCEPT !.multiplier = "k"],
        [Series("a", "Multiplier") EXCEPT !.multiplier = "b"],
        [Series("a", "MovingAverage") EXCEPT !.source = "b", !.window = "12"]}

Binding(id, parameter, timeseries) ==
  [model_id |-> id, parameter |-> parameter, timeseries |-> timeseries]
BindingEntries ==
  {Binding(i, q, t) : i \in {"J1", "P1"}, q \in {"headmeasure", "flow"},
                      t \in {"b"}}
  \cup {Binding("J1", "headmeasure", "nope"), Binding("J1", "viscosity", "b"),
        Binding("J1", NoField, "b"), Binding("J1", "quality", NoField),
        Binding(NoField, "flow", "b"), Binding("R1", "boundaryhead", "b"),
        Binding("R1", "levelmeasure", "b"), Binding("V1", "setting", "b"),
        Binding("V1", "curve", "b")}

Network ==
  << [name |-> "J1", kind |-> "Junction"], [name |-> "P1", kind |-> "Pipe"],
     [name |-> "R1", kind |-> "Reservoir"], [name |-> "V1", kind |-> "Valve"] >>

\* the end-to-end document of the specification, with every section
BaseDoc ==
  [file |-> "ok", version |-> TRUE, configuration |-> TRUE, sections |-> Sections,
   records |-> << Record("hist", "CSV", "data", NoField) >>,
   clocks |-> << Clock("5min", "300") >>,
   timeseries |-> << [Series("b", "TimeSeries") EXCEPT !.pointRecord = "hist"],
                     [Series("a", "MovingAverage") EXCEPT !.source = "b",
                                                          !.window = "12"] >>,
   model |-> [type |-> "epanet", file |-> "net.inp"],
   network |-> Network, networkZones |-> 1,
   simulation |-> [time |-> TRUE, hydraulic |-> "3600", quality |-> "60"],
   zones |-> [auto_detect |-> "true", detect_closed_links |-> NoField],
   save |-> [staterecord |-> "hist", hasSaveStates |-> TRUE,
             saveStatesIsList |-> TRUE, save_states |-> <<"measured">>],
   elements |-> << Binding("J1", "headmeasure", "b") >>]

\* what is left of a document whose section s is absent
Without(d, s) ==
  CASE s = "records" -> [d EXCEPT !.records = <<>>]
    [] s = "clocks" -> [d EXCEPT !.clocks = <<>>]
    [] s = "timeseries" -> [d EXCEPT !.timeseries = <<>>]
    [] s = "elements" -> [d EXCEPT !.elements = <<>>]
    [] OTHER -> d

RECURSIVE Strip(_, _)
Strip(d, absent) ==
  IF absent = {} THEN d
  ELSE LET s == CHOOSE x \in absent : TRUE
       IN Strip(Without(d, s), absent \ {s})

\* documents that differ in which sections exist, in the file's state and in
\* the model's type
LoadDocs ==
  {[Strip(BaseDoc, Sections \ present) EXCEPT
      !.sections = present, !.version = v, !.model.type = t, !.file = f] :
     present \in SUBSET Sections, v \in BOOLEAN,
     t \in {"epanet", "synthetic_epanet", "other"}, f \in {"ok"}}
  \cup {[BaseDoc EXCEPT !.file = f] : f \in {"ioerror", "parseerror"}}
  \cup {[Strip(BaseDoc, Sections) EXCEPT !.sections = {}, !.configuration = FALSE]}
  \cup {[BaseDoc EXCEPT !.model = m] :
          m \in {[type |-> NoField, file |-> "net.inp"],
                 [type |-> "epanet", file |-> NoField]}}
  \cup {[BaseDoc EXCEPT !.simulation = x] :
          x \in {[time |-> FALSE, hydraulic |-> NoField, quality |-> NoField],
                 [time |-> TRUE, hydraulic |-> "3600", quality |-> NoField]}}
  \cup {[BaseDoc EXCEPT !.zones.auto_detect = x] : x \in {NoField, "false"}}

SaveGroups ==
  {[staterecord |-> r, hasSaveStates |-> TRUE, saveStatesIsList |-> TRUE,
    save_states |-> l] :
     r \in {"hist", "nope"},
     l \in SeqsUpTo({"all", "measured", "zone_demand", "other"}, 2)}
  \cup {[staterecord |-> NoField, hasSaveStates |-> TRUE, saveStatesIsList |-> TRUE,
         save_states |-> <<"all">>],
        [staterecord |-> "hist", hasSaveStates |-> FALSE, saveStatesIsList |-> TRUE,
         save_states |-> <<>>],
        [staterecord |-> "hist", hasSaveStates |-> TRUE, saveStatesIsList |-> FALSE,
         save_states |-> <<>>]}

RecordDocs == {[BaseDoc EXCEPT !.records = l] : l \in SeqsUpTo(RecordEntries, MaxRecords)}
ClockDocs == {[BaseDoc EXCEPT !.clocks = l] : l \in SeqsUpTo(ClockEntries, MaxClocks)}
SeriesDocs == {[BaseDoc EXCEPT !.timeseries = l] : l \in SeqsUpTo(SeriesEntries, MaxSeries)}
AggregatorDocs ==
  {[BaseDoc EXCEPT !.timeseries = l] : l \in SeqsUpTo(AggregatorEntries, MaxSeries)}
BindingDocs ==
  {[BaseDoc EXCEPT !.elements = l, !.save = g] :
     l \in SeqsUpTo(BindingEntries, MaxBindings),
     g \in {BaseDoc.save, [BaseDoc.save EXCEPT !.save_states = <<"all", "zone_demand">>]}}
  \cup {[BaseDoc EXCEPT !.save = g, !.model.type = t] :
          g \in SaveGroups, t \in {"epanet", "other"}}

Docs == LoadDocs \cup ClockDocs \cup BindingDocs

\* ------------------------------------------------------------------- state
InitWith(d) ==
  /\ pc = "readFile"
  /\ doc = d
  /\ _pointRecordList = EmptyMap
  /\ _clockList = EmptyMap
  /\ _timeSeriesList = EmptyMap
  /\ _timeSeriesSourceList = EmptyMap
  /\ _multiplierBasisList = EmptyMap
  /\ _timeSeriesAggregationSourceList = EmptyMap
  /\ recHeap = <<>>
  /\ clockHeap = <<>>
  /\ tsHeap = <<>>
  /\ _model = NullModel
  /\ _defaultRecord = NULL
  /\ _doesHaveStateRecord = FALSE
  /\ diag = <<>>
  /\ stages = <<>>

Init == \E d \in Docs : InitWith(d)

tables == <<_pointRecordList, _clockList, _timeSeriesList, recHeap, clockHeap, tsHeap>>
pending == <<_timeSeriesSourceList, _multiplierBasisList,
             _timeSeriesAggregationSourceList>>
policy == <<_defaultRecord, _doesHaveStateRecord>>

\* where loadConfigFile goes after a stage: on, or out with an exception, or
\* nowhere when the process has ended
After(threw, crashed, next) ==
  IF crashed THEN "crashed" ELSE IF threw THEN "threw" ELSE next

\* the order in which loadConfigFile takes the sections
StageAfterSwapped(stage) ==
  CASE stage = "records" -> "clocks"
    [] stage = "clocks" -> "timeseries"
    [] stage = "timeseries" -> "model"
    [] stage = "model" -> "zones"
    [] stage = "zones" -> "simulation"
    [] stage = "simulation" -> "save"
    [] OTHER -> "returned"

StageAfter(stage) ==
  CASE stage = "records" -> "clocks"
    [] stage = "clocks" -> "timeseries"
    [] stage = "timeseries" -> "model"
    [] stage = "model" -> "simulation"
    [] stage = "simulation" -> "zones"
    [] stage = "zones" -> "save"
    [] OTHER -> "returned"

\* config.add(name, TypeList) for a section that does not exist
AddPlaceholder(d, s) == [d EXCEPT !.sections = @ \cup {s}]

\* the two catch blocks without their return statements: the diagnostic is
\* written and loadConfigFile goes on to the sections
ReadFileContinues ==
  /\ pc = "readFile"
  /\ pc' = "version"
  /\ diag' = IF doc.file = "ok" THEN diag
             ELSE Append(diag, IF doc.file = "ioerror"
                               THEN <<"I/O error while reading file.">>
                               ELSE <<"Parse error">>)
  /\ UNCHANGED <<doc, tables, pending, _model, policy, stages>>

\* loadConfigFile: _configuration.readFile and its two catch blocks
ReadFile ==
  /\ pc = "readFile"
  /\ IF doc.file = "ok"
     THEN pc' = "version" /\ diag' = diag
     ELSE /\ pc' = "returned"
          /\ diag' = Append(diag, IF doc.file = "ioerror"
                                  THEN <<"I/O error while reading file.">>
                                  ELSE <<"Parse error">>)
  /\ UNCHANGED <<doc, tables, pending, _model, policy, stages>>

\* loadConfigFile: lookup("version") throws when there is none; then the
\* "configuration" group is created when absent
LookupVersion ==
  /\ pc = "version"
  /\ IF doc.version
     THEN pc' = "records" /\ doc' = [doc EXCEPT !.configuration = TRUE]
     ELSE pc' = "threw" /\ doc' = doc
  /\ UNCHANGED <<tables, pending, _model, policy, diag, stages>>

\* loadConfigFile, "point records": createPointRecords or the placeholder
LoadRecords ==
  /\ pc = "records"
  /\ IF "records" \notin doc.sections
     THEN /\ doc' = AddPlaceholder(doc, "records")
          /\ pc' = StageAfter("records")
          /\ UNCHANGED <<_pointRecordList, recHeap, diag, stages>>
     ELSE LET r == PointRecordsLoop(doc.records, 1, "",
                     [list |-> _pointRecordList, heap |-> recHeap,
                      diag |-> diag, threw |-> FALSE])
          IN /\ _pointRecordList' = r.list
             /\ recHeap' = r.heap
             /\ diag' = r.diag
             /\ stages' = Append(stages, "createPointRecords")
             /\ pc' = After(r.threw, FALSE, StageAfter("records"))
             /\ doc' = doc
  /\ UNCHANGED <<_clockList, _timeSeriesList, clockHeap, tsHeap, pending, _model,
                 policy>>

\* loadConfigFile, "get clocks"
LoadClocks ==
  /\ pc = "clocks"
  /\ IF "clocks" \notin doc.sections
     THEN /\ doc' = AddPlaceholder(doc, "clocks")
          /\ pc' = StageAfter("clocks")
          /\ UNCHANGED <<_clockList, clockHeap, stages>>
     ELSE LET r == ClocksLoop(doc.clocks, 1,
                     [list |-> _clockList, heap |-> clockHeap, threw |-> FALSE])
          IN /\ _clockList' = r.list
             /\ clockHeap' = r.heap
             /\ stages' = Append(stages, "createClocks")
             /\ pc' = After(r.threw, FALSE, StageAfter("clocks"))
             /\ doc' = doc
  /\ UNCHANGED <<_pointRecordList, _timeSeriesList, recHeap, tsHeap, pending, _model,
                 policy, diag>>

\* loadConfigFile, "get timeseries": createTimeSeriesList up to the end of its
\* construction loop
LoadTimeSeries ==
  /\ pc = "timeseries"
  /\ IF "timeseries" \notin doc.sections
     THEN /\ doc' = AddPlaceholder(doc, "timeseries")
          /\ pc' = StageAfter("timeseries")
          /\ UNCHANGED <<_pointRecordList, _clockList, _timeSeriesList, tsHeap,
                         pending, diag, stages>>
     ELSE LET r == SeriesLoop(doc.timeseries, 1,
                     [list |-> _timeSeriesList, heap |-> tsHeap,
                      src |-> _timeSeriesSourceList, mult |-> _multiplierBasisList,
                      aggr |-> _timeSeriesAggregationSourceList,
                      clocks |-> _clockList, recs |-> _pointRecordList,
                      diag |-> diag, threw |-> FALSE, ptr |-> NULL])
          IN /\ _timeSeriesList' = r.list
             /\ tsHeap' = r.heap
             /\ _timeSeriesSourceList' = r.src
             /\ _multiplierBasisList' = r.mult
             /\ _timeSeriesAggregationSourceList' = r.aggr
             /\ _clockList' = r.clocks
             /\ _pointRecordList' = r.recs
             /\ diag' = r.diag
             /\ stages' = Append(stages, "createTimeSeriesList")
             /\ pc' = After(r.threw, FALSE, "connectSingle")
             /\ doc' = doc
  /\ UNCHANGED <<recHeap, clockHeap, _model, policy>>

\* createTimeSeriesList: connect single sources
ConnectSingleSources ==
  /\ pc = "connectSingle"
  /\ \E ub \in [UBSingle(_timeSeriesList, tsHeap, _timeSeriesSourceList) -> UBOutcomes] :
       LET r == SingleSourceLoop(SortedKeys(_timeSeriesSourceList), 1, ub,
                  [list |-> _timeSeriesList, heap |-> tsHeap,
                   src |-> _timeSeriesSourceList, diag |-> diag, crashed |-> FALSE])
       IN /\ tsHeap' = r.heap
          /\ diag' = r.diag
          /\ pc' = After(FALSE, r.crashed, "connectMultiplier")
  /\ UNCHANGED <<doc, _pointRecordList, _clockList, _timeSeriesList, recHeap,
                 clockHeap, pending, _model, policy, stages>>

\* createTimeSeriesList: connect multiplier time series sources
ConnectMultipliers ==
  /\ pc = "connectMultiplier"
  /\ LET r == MultiplierLoop(1, [list |-> _timeSeriesList, heap |-> tsHeap,
                                 mult |-> _multiplierBasisList, diag |-> diag])
     IN /\ _timeSeriesList' = r.list
        /\ tsHeap' = r.heap
        /\ diag' = r.diag
  /\ pc' = "connectAggregator"
  /\ UNCHANGED <<doc, _pointRecordList, _clockList, recHeap, clockHeap, pending,
                 _model, policy, stages>>

\* createTimeSeriesList: connect the aggregators' sources, and return
ConnectAggregators ==
  /\ pc = "connectAggregator"
  /\ \E ub \in [UBAggregator(_timeSeriesList, tsHeap,
                             _timeSeriesAggregationSourceList) -> UBOutcomes] :
       LET r == AggregatorLoop(SortedKeys(_timeSeriesAggregationSourceList), 1, ub,
                  [list |-> _timeSeriesList, heap |-> tsHeap,
                   aggr |-> _timeSeriesAggregationSourceList, diag |-> diag,
                   crashed |-> FALSE])
       IN /\ tsHeap' = r.heap
          /\ diag' = r.diag
          /\ pc' = After(FALSE, r.crashed, StageAfter("timeseries"))
  /\ UNCHANGED <<doc, _pointRecordList, _clockList, _timeSeriesList, recHeap,
                 clockHeap, pending, _model, policy, stages>>

\* loadConfigFile, "make a new model": createModel, which configures the
\* elements itself
LoadModel ==
  /\ pc = "model"
  /\ IF "model" \notin doc.sections
     THEN /\ doc' = AddPlaceholder(doc, "model")
          /\ pc' = StageAfter("model")
          /\ UNCHANGED <<_timeSeriesList, _model, diag, stages>>
     ELSE LET r == CreateModel(doc, _model, _timeSeriesList, diag)
          IN /\ _model' = r.model
             /\ _timeSeriesList' = r.list
             /\ diag' = r.diag
             /\ stages' = stages \o <<"createModel">>
                            \o (IF r.bound THEN <<"configureElements">> ELSE <<>>)
             /\ pc' = After(r.threw, FALSE, StageAfter("model"))
             /\ doc' = doc
  /\ UNCHANGED <<_pointRecordList, _clockList, recHeap, clockHeap, tsHeap, pending,
                 policy>>

\* loadConfigFile, "set simulation defaults"
LoadSimulation ==
  /\ pc = "simulation"
  /\ IF "simulation" \notin doc.sections
     THEN /\ doc' = AddPlaceholder(doc, "simulation")
          /\ pc' = StageAfter("simulation")
          /\ UNCHANGED <<_model, stages>>
     ELSE \E ub \in UBOutcomes :
            LET r == CreateSimulationDefaults(doc.simulation, _model, ub)
            IN /\ _model' = r.model
               /\ stages' = Append(stages, "createSimulationDefaults")
               /\ pc' = After(r.threw, r.crashed, StageAfter("simulation"))
               /\ doc' = doc
  /\ UNCHANGED <<tables, pending, policy, diag>>

\* loadConfigFile, "make zones"
LoadZones ==
  /\ pc = "zones"
  /\ IF "zones" \notin doc.sections
     THEN /\ doc' = AddPlaceholder(doc, "zones")
          /\ pc' = StageAfter("zones")
          /\ UNCHANGED <<_model, stages>>
     ELSE \E ub \in UBOutcomes :
            LET r == CreateZones(doc, _model, ub)
            IN /\ _model' = r.model
               /\ stages' = Append(stages, "createZones")
               /\ pc' = After(FALSE, r.crashed, StageAfter("zones"))
               /\ doc' = doc
  /\ UNCHANGED <<tables, pending, policy, diag>>

\* loadConfigFile, "data persistence", and the return
LoadSave ==
  /\ pc = "save"
  /\ IF "save" \notin doc.sections
     THEN /\ doc' = AddPlaceholder(doc, "save")
          /\ pc' = StageAfter("save")
          /\ UNCHANGED <<_pointRecordList, _model, policy, diag, stages>>
     ELSE \E ub \in UBOutcomes :
            LET r == CreateSaveOptions(doc.save, _model, _pointRecordList,
                                       _doesHaveStateRecord, _defaultRecord, ub)
            IN /\ _model' = r.model
               /\ _pointRecordList' = r.recs
               /\ _doesHaveStateRecord' = r.has
               /\ _defaultRecord' = r.rec
               /\ diag' = diag \o r.diag
               /\ stages' = Append(stages, "createSaveOptions")
               /\ pc' = After(r.threw, r.crashed, StageAfter("save"))
               /\ doc' = doc
  /\ UNCHANGED <<_clockList, _timeSeriesList, recHeap, clockHeap, tsHeap, pending>>

Next ==
  \/ ReadFile
  \/ LookupVersion
  \/ LoadRecords
  \/ LoadClocks
  \/ LoadTimeSeries
  \/ ConnectSingleSources
  \/ ConnectMultipliers
  \/ ConnectAggregators
  \/ LoadModel
  \/ LoadSimulation
  \/ LoadZones
  \/ LoadSave

\* every load of a document that differs from the base document in its
\* sections, its clocks, its model, its save options or its element bindings
Spec == Init /\ [][Next]_vars

\* every load of a document that differs in its records
InitRecords == \E d \in RecordDocs : InitWith(d)
SpecRecords == InitRecords /\ [][Next]_vars

\* every load of a document that differs in its time series
InitSeries == \E d \in SeriesDocs : InitWith(d)
SpecSeries == InitSeries /\ [][Next]_vars

\* every load of a document with aggregators among its time series
InitAggregators == \E d \in AggregatorDocs : InitWith(d)
SpecAggregators == InitAggregators /\ [][Next]_vars

\* ================================================================== claims
Ran(stage) == \E i \in DOMAIN stages : stages[i] = stage

\* createTimeSeriesList has just returned
SeriesListReturned == pc = StageAfter("timeseries") /\ Ran("createTimeSeriesList")

\* name n is the name of a constructed node of the completed node table
InNodeTable(n) == n \in DOMAIN _timeSeriesList /\ _timeSeriesList[n] # NULL

\* the entries of the time-series list that carry name n
DeclaredAt(n) == {i \in DOMAIN doc.timeseries : doc.timeseries[i].name = n}

HasDiag(d) == \E i \in DOMAIN diag : diag[i] = d
CountDiag(d) == Cardinality({i \in DOMAIN diag : diag[i] = d})

\* ---------------------------------------------------------------------- C1
\* entry i declares entry j as its source, both names are declared once and
\* both types are registered
DeclaresSource(i, j) ==
  LET D == doc.timeseries[i]
      S == doc.timeseries[j]
  IN /\ IsString(D.name) /\ IsString(S.name) /\ D.name # S.name
     /\ D.source = S.name
     /\ DeclaredAt(D.name) = {i} /\ DeclaredAt(S.name) = {j}
     /\ D.type \in TimeSeriesTypes /\ S.type \in TimeSeriesTypes

\* C1: forward references are order-independent.  Whenever D declares source
\* S (each declared once, with a known type), then after createTimeSeriesList
\* the node table holds the objects built from the two declarations and D's
\* upstream source is the object stored under S's name, whether D comes
\* before S in the list or after it.
C1_ForwardReferenceResolved ==
  SeriesListReturned =>
    \A i, j \in DOMAIN doc.timeseries :
      DeclaresSource(i, j) =>
        LET D == doc.timeseries[i]
            S == doc.timeseries[j]
        IN /\ InNodeTable(D.name) /\ InNodeTable(S.name)
           /\ tsHeap[_timeSeriesList[D.name]].decl = i - 1
           /\ tsHeap[_timeSeriesList[S.name]].decl = j - 1
           /\ tsHeap[_timeSeriesList[D.name]].source = _timeSeriesList[S.name]

\* ---------------------------------------------------------------------- C2
BindingStages == {"createSimulationDefaults", "createZones", "createSaveOptions"}

\* C2 as stated: element bindings are applied last, only after the
\* simulation-defaults, zones and persistence-policy stages have run, so none
\* of those stages runs after configureElements.
C2_BindingsAppliedLast ==
  \A i, j \in DOMAIN stages :
    (stages[i] = "configureElements" /\ j > i) => stages[j] \notin BindingStages

StageOrder ==
  <<"createPointRecords", "createClocks", "createTimeSeriesList", "createModel",
    "configureElements", "createSimulationDefaults", "createZones",
    "createSaveOptions">>
Rank(stage) == CHOOSE r \in DOMAIN StageOrder : StageOrder[r] = stage

\* C2 amended: the stage functions run in the fixed order records, clocks,
\* time-series, model, simulation-defaults, zones, persistence-policy, and the
\* element bindings are applied inside the model stage: configureElements
\* directly follows createModel and precedes the simulation-defaults, zones
\* and persistence-policy stages.
C2_StagesInOrderBindingsInModelStage ==
  /\ \A i, j \in DOMAIN stages : i < j => Rank(stages[i]) < Rank(stages[j])
  /\ \A i \in DOMAIN stages :
       stages[i] = "configureElements" => i > 1 /\ stages[i - 1] = "createModel"

\* a load that ran every stage and bound the elements
C2_Witness == pc = "returned" /\ stages = StageOrder

\* ---------------------------------------------------------------------- C3
\* the positions of an aggregation list whose source is not in the node table
MissingAt(aggregationList) ==
  {j \in DOMAIN aggregationList : ~InNodeTable(aggregationList[j][1])}

\* the (object, weight) pairs of the sources that are in the node table, in
\* list order
RECURSIVE Attachable(_, _)
Attachable(aggregationList, j) ==
  IF j > Len(aggregationList) THEN <<>>
  ELSE (IF InNodeTable(aggregationList[j][1])
        THEN << <<_timeSeriesList[aggregationList[j][1]], aggregationList[j][2]>> >>
        ELSE <<>>) \o Attachable(aggregationList, j + 1)

\* C3: an aggregator (declared once, with no single source of its own) whose
\* list of N weighted sources has exactly one source k that names no node of
\* the completed node table gets exactly the other N-1 sources, each with its
\* weight, in list order, and exactly one diagnostic names k.
C3_OneMissingSourceSkipped ==
  SeriesListReturned =>
    \A n \in DOMAIN _timeSeriesAggregationSourceList :
      LET aggregationList == _timeSeriesAggregationSourceList[n]
      IN (/\ InNodeTable(n)
          /\ tsHeap[_timeSeriesList[n]].cls = "AggregatorTimeSeries"
          /\ DeclaredAt(n) = {tsHeap[_timeSeriesList[n]].decl + 1}
          /\ n \notin DOMAIN _timeSeriesSourceList
          /\ Cardinality(MissingAt(aggregationList)) = 1)
         => LET k == aggregationList[CHOOSE j \in MissingAt(aggregationList) : TRUE][1]
            IN /\ tsHeap[_timeSeriesList[n]].sources = Attachable(aggregationList, 1)
               /\ Len(tsHeap[_timeSeriesList[n]].sources) = Len(aggregationList) - 1
               /\ CountDiag(<<"cannot locate specified source Timeseries", k, n>>) = 1

\* ---------------------------------------------------------------------- C4
\* C4: once the document has been read and parsed, nothing stops the load
\* before its last stage: it neither leaves loadConfigFile early nor ends
\* the process.
C4_OnlyDocumentErrorHalts ==
  doc.file = "ok" => pc \notin {"threw", "crashed"}

\* ---------------------------------------------------------------------- C5
ClocksAttempted ==
  Ran("createClocks") /\ pc \notin {"readFile", "version", "records", "clocks"}
SeriesAttempted ==
  /\ Ran("createTimeSeriesList")
  /\ pc \notin {"readFile", "version", "records", "clocks", "timeseries"}

WellFormedClock(clock) == IsString(clock.name) /\ IsString(clock.period)

\* a time-series entry with a name, a registered type and the fields its
\* type requires
WellFormedSeries(series) ==
  /\ IsString(series.name) /\ IsString(series.type)
  /\ series.type \in TimeSeriesTypes
  /\ series.type = "MovingAverage" => IsString(series.window)
  /\ series.type = "Aggregator" => ~SourcesThrow(series)
  /\ series.type = "CurveFunction" => Exists(series.function)

\* C5: a list entry that lacks a required field is skipped alone: once the
\* clocks (time-series) section has been gone through, every well-formed
\* entry of it is in the clock (node) table, also the ones after a malformed
\* entry.
C5_MalformedEntrySkippedAlone ==
  /\ ClocksAttempted =>
       \A i \in DOMAIN doc.clocks :
         WellFormedClock(doc.clocks[i]) =>
           /\ doc.clocks[i].name \in DOMAIN _clockList
           /\ _clockList[doc.clocks[i].name] # NULL
  /\ SeriesAttempted =>
       \A i \in DOMAIN doc.timeseries :
         WellFormedSeries(doc.timeseries[i]) => InNodeTable(doc.timeseries[i].name)

\* ---------------------------------------------------------------------- C6
\* C6: after the multiplier edges are resolved, a multiplier whose basis names
\* no node has no multiplier attached, a diagnostic names it and the basis,
\* and the node table has no entry under the basis name.
C6_MissingBasisSkipped ==
  (pc = "connectAggregator") =>
    \A q \in DOMAIN _multiplierBasisList :
      LET basisName == _multiplierBasisList[q]
      IN ~InNodeTable(basisName) =>
           /\ tsHeap[q].multiplier = NULL
           /\ basisName \notin DOMAIN _timeSeriesList
           /\ \E i \in DOMAIN diag :
                /\ Len(diag[i]) = 3
                /\ diag[i][2] = basisName
                /\ diag[i][3] = tsHeap[q].name

\* ---------------------------------------------------------------------- C7
\* entry i of the records section is a complete declaration of a registered
\* type, from which createPointRecordOfType builds an object
RecordConstructed(i) ==
  LET record == doc.records[i]
  IN /\ IsString(record.name) /\ IsString(record.type)
     /\ record.type \in PointRecordTypes
     /\ record.type = "CSV" => IsString(record.path)
     /\ record.type \in {"SCADA", "MySQL"} => IsString(record.connection)

RecordsReturned == pc = StageAfter("records") /\ Ran("createPointRecords")

\* C7 for the records section: when two constructed entries carry the same
\* name and no later entry carries it, the table's entry for the name is the
\* object built from the later of the two.
C7_LastRecordWins ==
  RecordsReturned =>
    \A i, j \in DOMAIN doc.records :
      (/\ i < j
       /\ doc.records[j].name = doc.records[i].name
       /\ RecordConstructed(i) /\ RecordConstructed(j)
       /\ \A l \in DOMAIN doc.records :
            l > j => doc.records[l].name # doc.records[j].name)
      => /\ doc.records[j].name \in DOMAIN _pointRecordList
         /\ _pointRecordList[doc.records[j].name] # NULL
         /\ recHeap[_pointRecordList[doc.records[j].name]].decl = j - 1

\* ---------------------------------------------------------------------- C8
\* C8: a CSV declaration without name or path gives a diagnostic and no
\* object: no entry of the backend table holds an object built from it.
C8_IncompleteCsvNotStored ==
  RecordsReturned =>
    \A i \in DOMAIN doc.records :
      (/\ doc.records[i].type = "CSV"
       /\ (~IsString(doc.records[i].name) \/ ~IsString(doc.records[i].path)))
      => /\ HasDiag(<<"CSV Point Record -- check config">>)
         /\ \A n \in DOMAIN _pointRecordList :
              _pointRecordList[n] # NULL => recHeap[_pointRecordList[n]].decl # i - 1

\* ---------------------------------------------------------------------- C9
\* C9: a load that returns without having found a save section has warned
\* that no results will be retained.
C9_NoSaveSectionWarns ==
  (pc = "returned" /\ doc.file = "ok" /\ ~Ran("createSaveOptions"))
    => HasDiag(<<"Warning: no state record specified">>)

\* --------------------------------------------------------------------- C10
\* C10: the tables hold only what the Node Builder stored: every entry is a
\* constructed object under the name it was declared with, so a lookup never
\* leaves an entry behind.
C10_TablesOnlyHoldConstructed ==
  /\ \A n \in DOMAIN _clockList :
       _clockList[n] # NULL /\ doc.clocks[clockHeap[_clockList[n]].decl + 1].name = n
  /\ \A n \in DOMAIN _timeSeriesList :
       _timeSeriesList[n] # NULL /\ tsHeap[_timeSeriesList[n]].name = n
  /\ \A n \in DOMAIN _pointRecordList : _pointRecordList[n] # NULL

\* --------------------------------------------------------------------- C11
\* readFile has failed with an I/O or parse error and loadConfigFile has acted
ReadFailed == doc.file # "ok" /\ pc # "readFile"

\* C11: when reading the document fails, loadConfigFile writes one diagnostic
\* and returns at once: no stage function is called and the backend, clock
\* and time-series tables, the pending-edge tables, the model and the default
\* record are as the constructor left them.
C11_ReadFailureReturnsUntouched ==
  ReadFailed =>
    /\ pc = "returned"
    /\ diag \in { << <<"I/O error while reading file.">> >>, << <<"Parse error">> >> }
    /\ stages = <<>>
    /\ _pointRecordList = EmptyMap /\ recHeap = <<>>
    /\ _clockList = EmptyMap /\ clockHeap = <<>>
    /\ _timeSeriesList = EmptyMap /\ tsHeap = <<>>
    /\ _timeSeriesSourceList = EmptyMap
    /\ _multiplierBasisList = EmptyMap
    /\ _timeSeriesAggregationSourceList = EmptyMap
    /\ _model = NullModel
    /\ _defaultRecord = NULL /\ _doesHaveStateRecord = FALSE

\* a load whose document could not be parsed has returned
C11_Witness == pc = "returned" /\ doc.file = "parseerror" /\ Len(diag) = 1

\* --------------------------------------------------------------------- C12
\* a binding entry with an element identifier, a registered parameter kind
\* and the name of a node of the node table
WellFormedBinding(b) ==
  /\ IsString(b.model_id)
  /\ b.parameter \in ParameterTypes
  /\ IsString(b.timeseries) /\ InNodeTable(b.timeseries)

\* the element has the capability the parameter kind requires
HasCapability(el, parameter) == ParameterClass(parameter) \in ClassesOf(el.kind)

\* the binding entries for parameter q that match element el and that el has
\* the capability for
ApplicableAt(el, q) ==
  {i \in DOMAIN doc.elements :
     /\ doc.elements[i].model_id = el.name
     /\ doc.elements[i].parameter = q
     /\ HasCapability(el, q)}

ElementDiagnostics ==
  {"skipping element : missing parameter", "could not find parameter type",
   "could not find time series"}

BindingsApplied ==
  /\ Ran("configureElements")
  /\ "elements" \in doc.sections
  /\ \A i \in DOMAIN doc.elements : WellFormedBinding(doc.elements[i])

\* C12: with well-formed binding entries, once the elements are configured
\* every parameter of every element holds the series of the last matching
\* entry the element has the capability for, and nothing when there is none:
\* an entry whose capability check fails changes nothing, writes no
\* diagnostic and stops neither the later entries nor the later elements.
C12_BindingNeedsCapability ==
  BindingsApplied =>
    /\ \A e \in DOMAIN _model.elements : \A q \in ParameterTypes :
         LET el == _model.elements[e]
             A == ApplicableAt(el, q)
         IN el.params[q] =
              IF A = {} THEN NULL
              ELSE _timeSeriesList[doc.elements[CHOOSE i \in A :
                                     \A l \in A : l <= i].timeseries]
    /\ \A i \in DOMAIN diag : diag[i][1] \notin ElementDiagnostics

\* an entry that fails the capability check of its element is followed by an
\* entry that was applied
C12_Witness ==
  /\ BindingsApplied
  /\ \E i, j \in DOMAIN doc.elements : \E e, f \in DOMAIN _model.elements :
       /\ i < j
       /\ doc.elements[i].model_id = _model.elements[e].name
       /\ ~HasCapability(_model.elements[e], doc.elements[i].parameter)
       /\ _model.elements[e].params[doc.elements[i].parameter] = NULL
       /\ doc.elements[j].model_id = _model.elements[f].name
       /\ HasCapability(_model.elements[f], doc.elements[j].parameter)
       /\ _model.elements[f].params[doc.elements[j].parameter] # NULL

\* --------------------------------------------------------------------- C13
\* createSaveOptions has gone through a save_states list that holds the token
\* "measured" and not the token "all", for a model that exists
MeasuredPolicyApplied ==
  /\ pc = "returned" /\ Ran("createSaveOptions")
  /\ _model.kind # "null"
  /\ IsString(doc.save.staterecord)
  /\ doc.save.hasSaveStates /\ doc.save.saveStatesIsList
  /\ \E i \in DOMAIN doc.save.save_states : doc.save.save_states[i] = "measured"
  /\ \A i \in DOMAIN doc.save.save_states : doc.save.save_states[i] # "all"

\* the measurement bound to the element that goes with a state series
MeasureOf(el, state) ==
  CASE state = "head" -> el.params["headmeasure"]
    [] state = "quality" -> el.params["quality"]
    [] OTHER -> el.params["flow"]

\* C13: with the token "measured" the default record is attached to a state
\* series only when the element carries the bound measurement that goes with
\* it (head and quality of a junction, flow of a pipe); every junction and
\* pipe with such a measurement gets the default record, and the state series
\* of every element without one keep the storage they had (none).
C13_MeasuredOnlyBoundElements ==
  MeasuredPolicyApplied =>
    \A e \in DOMAIN _model.elements : \A x \in StateNames :
      LET el == _model.elements[e]
      IN /\ MeasureOf(el, x) = NULL => el.rec[x] = NULL
         /\ el.rec[x] \in {NULL, _defaultRecord}
         /\ (MeasureOf(el, x) # NULL /\ el.kind \in {"Junction", "Pipe"})
              => el.rec[x] = _defaultRecord

\* the default record is attached to the head of a junction with a head
\* measure while an unmeasured element's state series have no record
C13_Witness ==
  /\ MeasuredPolicyApplied
  /\ _defaultRecord # NULL
  /\ \E e, f \in DOMAIN _model.elements :
       /\ _model.elements[e].params["headmeasure"] # NULL
       /\ _model.elements[e].rec["head"] = _defaultRecord
       /\ \A x \in StateNames :
            MeasureOf(_model.elements[f], x) = NULL /\ _model.elements[f].rec[x] = NULL

\* --------------------------------------------------------------------- C14
\* the document is the well-formed base document with some of its sections
\* (and possibly its version) left out: what is present is as in BaseDoc
OtherwiseWellFormed ==
  /\ doc.file = "ok"
  /\ doc.records \in {BaseDoc.records, <<>>}
  /\ doc.clocks \in {BaseDoc.clocks, <<>>}
  /\ doc.timeseries \in {BaseDoc.timeseries, <<>>}
  /\ doc.elements \in {BaseDoc.elements, <<>>}
  /\ doc.model = BaseDoc.model
  /\ doc.simulation = BaseDoc.simulation
  /\ doc.zones = BaseDoc.zones
  /\ doc.save = BaseDoc.save

\* C14: every section is optional.  Whatever sections (version included) an
\* otherwise well-formed document leaves out, the load does not fail: it
\* neither leaves loadConfigFile with an exception nor ends the process, also
\* when simulation, zones or save are present and the model section is not.
C14_EverySectionOptional ==
  OtherwiseWellFormed => pc \notin {"threw", "crashed"}

\* --------------------------------------------------------------------- C15
\* a binding entry whose parameter kind is not registered
UnregisteredBinding(b) ==
  /\ IsString(b.model_id)
  /\ IsString(b.parameter) /\ b.parameter \notin ParameterTypes

UnregisteredRecord(record) ==
  IsString(record.type) /\ record.type \notin PointRecordTypes

UnregisteredSeries(series) ==
  /\ IsString(series.name)
  /\ IsString(series.type) /\ series.type \notin TimeSeriesTypes

\* C15: an entry with an unregistered discriminator skips only itself.  In a
\* section whose other entries are well-formed, every well-formed entry is
\* processed as if the unregistered ones were not there: each complete record
\* and each well-formed time series is in its table, and every parameter of
\* every element holds the series of the last matching entry the element has
\* the capability for, also when an unregistered entry for the same element
\* comes first.
C15_UnregisteredSkipsOnlyItself ==
  /\ (/\ RecordsReturned
      /\ \A i \in DOMAIN doc.records :
           UnregisteredRecord(doc.records[i]) \/ RecordConstructed(i))
       => \A i \in DOMAIN doc.records :
            RecordConstructed(i) =>
              /\ doc.records[i].name \in DOMAIN _pointRecordList
              /\ _pointRecordList[doc.records[i].name] # NULL
  /\ (/\ SeriesListReturned
      /\ \A i \in DOMAIN doc.timeseries :
           UnregisteredSeries(doc.timeseries[i]) \/ WellFormedSeries(doc.timeseries[i]))
       => \A i \in DOMAIN doc.timeseries :
            WellFormedSeries(doc.timeseries[i]) => InNodeTable(doc.timeseries[i].name)
  /\ (/\ Ran("configureElements") /\ "elements" \in doc.sections
      /\ \A i \in DOMAIN doc.elements :
           UnregisteredBinding(doc.elements[i]) \/ WellFormedBinding(doc.elements[i]))
       => \A e \in DOMAIN _model.elements : \A q \in ParameterTypes :
            LET el == _model.elements[e]
                A == ApplicableAt(el, q)
            IN el.params[q] =
                 IF A = {} THEN NULL
                 ELSE _timeSeriesList[doc.elements[CHOOSE i \in A :
                                        \A l \in A : l <= i].timeseries]

\* --------------------------------------------------------------------- C16
\* the pass over the single-source edges is over
SinglePassDone ==
  /\ Ran("createTimeSeriesList")
  /\ pc \in {"connectMultiplier", "connectAggregator", "model", "simulation",
             "zones", "save", "returned", "crashed"}

C17_EdgesMatchNodeKind ==
  \A p \in DOMAIN tsHeap :
    /\ tsHeap[p].source # NULL => IsModular(tsHeap[p].cls)
    /\ tsHeap[p].multiplier # NULL => tsHeap[p].cls = "MultiplierTimeSeries"
    /\ tsHeap[p].sources # <<>> => tsHeap[p].cls = "AggregatorTimeSeries"

\* --------------------------------------------------------------------- C18
\* C18: no node has itself attached as its upstream source, as its multiplier
\* basis or as one of its aggregation sources.
C18_NoSelfSource ==
  \A p \in DOMAIN tsHeap :
    /\ tsHeap[p].source # p
    /\ tsHeap[p].multiplier # p
    /\ \A j \in DOMAIN tsHeap[p].sources : tsHeap[p].sources[j][1] # p

====
